---------------------------- MODULE Spec2Model ----------------------------
(***************************************************************************)
(* A model of the C binding layer of FLANN (src/cpp/flann.cpp): the        *)
(* marshalling between the FLANNParameters block and the loosely typed     *)
(* Params map, and the public entry points flann_build_index,              *)
(* flann_find_nearest_neighbors, flann_find_nearest_neighbors_index,       *)
(* flann_radius_search, flann_free_index, flann_compute_cluster_centers,   *)
(* test_with_precision and test_with_checks.                               *)
(*                                                                         *)
(* Floats are fixed-point integers in tenths: 0.4 is 4, -1.0 is -10.       *)
(* A C string is a record [ptr, text]: ptr is the address of the array     *)
(* the characters live in, text the characters.                            *)
(***************************************************************************)
EXTENDS Integers, Sequences, FiniteSets, TLC

VARIABLES
    heap,          \* handle -> [state, deletes]: the NNIndex objects handed to the caller
    logger,        \* the process-wide logger: [level, destination]
    seed,          \* the process-wide random seed last set by seed_random
    pc,            \* position of the running flann_build_index / flann_find_nearest_neighbors
    fn,            \* the entry point that is running or ran last
    fp,            \* the caller's FLANNParameters block (*flann_params), NullBlock if NULL
    fp0,           \* fp as it was when the call started
    speedup,       \* the caller's *speedup: NoSpeedup if the pointer is NULL
    speedup0,      \* speedup as it was when the call started
    params,        \* the local Params map of the running call
    autotuner,     \* the local Autotune object: NoAutotune or its constructor arguments
    index,         \* the local NNIndex of the running call: [algorithm, built, deleted] or NoIndex
    trace,         \* the calls made so far by the running call, in order
    ret,           \* what the last call returned
    searchParams,  \* the Params map handed to the search by the last call
    buf,           \* radius search: [max_nn, count, written]
    saved,         \* the locals target_precision, build_weight, memory_weight, sample_fraction
    arg,           \* the handle and checks arguments of the last call
    nullDeref,     \* the last call dereferenced a null pointer
    staleUse,      \* the last call used or deleted an index that had been freed
    cvBlock,       \* marshalling: the input block
    cvParams,      \* marshalling: the Params map
    cvOut,         \* marshalling: the block read back, or Thrown
    cvStage        \* marshalling: "input", "params" or "done"

vars == <<heap, logger, seed, pc, fn, fp, fp0, speedup, speedup0, params, autotuner,
          index, trace, ret, searchParams, buf, saved, arg, nullDeref, staleUse,
          cvBlock, cvParams, cvOut, cvStage>>

callVars == <<heap, logger, seed, pc, fn, fp, fp0, speedup, speedup0, params, autotuner,
              index, trace, ret, searchParams, buf, saved, arg, nullDeref, staleUse>>

cvVars == <<cvBlock, cvParams, cvOut, cvStage>>

-----------------------------------------------------------------------------
(* Bounds of the model *)

\* handles flann_build_index may hand out in one run
MaxIndex == 1
\* largest max_nn (size of the caller's radius buffers)
MaxNN == 2
\* rows of the dataset every index is built over
MaxRows == 3
\* flann_free_index calls one handle may receive
MaxFrees == 2

-----------------------------------------------------------------------------
(* The string tables and enums *)

algos == <<"linear", "kdtree", "kmeans", "composite", "vptree">>

centers_algos == <<"random", "gonzales", "kmeanspp">>

ARRAY_LEN(a) == Len(a)

LINEAR == 0

CENTERS_RANDOM == 0

\* the address-and-characters of table[i] (i counts from 0 as in C)
TableString(name, table, i) == [ptr |-> <<name, i>>, text |-> table[i + 1]]

\* a string literal written in the code at `where`
Literal(where, chars) == [ptr |-> <<where, 0>>, text |-> chars]

-----------------------------------------------------------------------------
(* Params: a map from key to Variant; a Variant is [type, val]             *)

IntV(n) == [type |-> "int", val |-> n]

FloatV(x) == [type |-> "float", val |-> x]

StrV(s) == [type |-> "str", val |-> s]

EmptyParams == [k \in {} |-> IntV(0)]

\* (T)params[key] succeeds iff the key is present and holds a T
Holds(ps, key, type) == key \in DOMAIN ps /\ ps[key].type = type

\* how the Variant compares with a const char*: by address or by characters
VariantSemantics == [eq : {"pointer", "string"}, missing : {"throws", "unequal"}]

StrEq(s, v, sem) ==
    /\ v.type = "str"
    /\ IF sem.eq = "pointer" THEN s.ptr = v.val.ptr ELSE s.text = v.val.text

Put(ps, key, v) == [k \in DOMAIN ps \cup {key} |-> IF k = key THEN v ELSE ps[k]]

Drop(ps, key) == [k \in DOMAIN ps \ {key} |-> ps[k]]


-----------------------------------------------------------------------------
(* FLANNParameters <-> Params                                              *)

\* parametersToParams, writing the iterations under `iterKey`
MarshalBlock(parameters, iterKey) ==
    LET p1 == [k \in {"checks", "cb_index", "trees", iterKey, "branching", "target-precision"} |->
                 CASE k = "checks" -> IntV(parameters.checks)
                   [] k = "cb_index" -> FloatV(parameters.cb_index)
                   [] k = "trees" -> IntV(parameters.trees)
                   [] k = iterKey -> IntV(parameters.iterations)
                   [] k = "branching" -> IntV(parameters.branching)
                   [] OTHER -> FloatV(parameters.target_precision)]
        p2 == IF parameters.centers_init >= 0 /\ parameters.centers_init < ARRAY_LEN(centers_algos)
              THEN Put(p1, "centers-init",
                       StrV(TableString("centers_algos", centers_algos, parameters.centers_init)))
              ELSE Put(p1, "centers-init", StrV(Literal("flann.cpp:50", "random")))
    IN  IF parameters.algorithm >= 0 /\ parameters.algorithm < ARRAY_LEN(algos)
        THEN Put(p2, "algorithm", StrV(TableString("algos", algos, parameters.algorithm)))
        ELSE p2

\* parametersToParams with the iterations stored under the field's name
parametersToParams_iterations(parameters) == MarshalBlock(parameters, "iterations")

parametersToParams(parameters) == MarshalBlock(parameters, "max-iterations")

\* the loop over centers_algos: the comparison sits in a try block
RECURSIVE FindCenters(_, _, _)
FindCenters(ps, sem, algo_id) ==
    IF algo_id >= ARRAY_LEN(centers_algos) THEN CENTERS_RANDOM
    ELSE IF /\ "centers-init" \in DOMAIN ps
            /\ StrEq(TableString("centers_algos", centers_algos, algo_id), ps["centers-init"], sem)
         THEN algo_id
         ELSE FindCenters(ps, sem, algo_id + 1)

\* the loop over algos: the comparison is not guarded
RECURSIVE FindAlgorithm(_, _, _)
FindAlgorithm(ps, sem, algo_id) ==
    IF algo_id >= ARRAY_LEN(algos) THEN LINEAR
    ELSE IF StrEq(TableString("algos", algos, algo_id), ps["algorithm"], sem)
         THEN algo_id
         ELSE FindAlgorithm(ps, sem, algo_id + 1)

\* paramsToParameters; u is the indeterminate content of the local `p`, unset
\* and cb_unset what the catch blocks store. The result is [ok, p]: ok is FALSE
\* when the unguarded lookup of "algorithm" throws.
UnmarshalParams(ps, u, sem, unset, cb_unset) ==
    LET int(key) == IF Holds(ps, key, "int") THEN ps[key].val ELSE unset
        p == [u EXCEPT
                !.checks = int("checks"),
                !.cb_index = IF Holds(ps, "cb_index", "float") THEN ps["cb_index"].val ELSE cb_unset,
                !.trees = int("trees"),
                !.iterations = int("max-iterations"),
                !.branching = int("branching"),
                !.target_precision = IF Holds(ps, "target-precision", "float")
                                     THEN ps["target-precision"].val ELSE -10,
                !.centers_init = FindCenters(ps, sem, 0)]
    IN  IF "algorithm" \in DOMAIN ps
        THEN [ok |-> TRUE, p |-> [p EXCEPT !.algorithm = FindAlgorithm(ps, sem, 0)]]
        ELSE IF sem.missing = "throws"
             THEN [ok |-> FALSE, p |-> u]
             ELSE [ok |-> TRUE, p |-> [p EXCEPT !.algorithm = LINEAR]]

\* paramsToParameters with catch blocks that store 0
paramsToParameters_zero(ps, u, sem) == UnmarshalParams(ps, u, sem, 0, 4)

paramsToParameters(ps, u, sem) == UnmarshalParams(ps, u, sem, -1, 4)

\* what an uninitialised FLANNParameters may hold in the fields paramsToParameters
\* never assigns
Indeterminate ==
    {u \in [log_level : {-1, 1}, log_destination : {"null"}, random_seed : {0},
            algorithm : {0}, checks : {0}, cb_index : {0}, trees : {0}, branching : {0},
            iterations : {0}, centers_init : {0}, target_precision : {0},
            build_weight : {-1, 3}, memory_weight : {-1, 3}, sample_fraction : {5}] :
        u.log_level < 0 <=> (u.build_weight < 0 /\ u.memory_weight < 0)}

-----------------------------------------------------------------------------
(* The marshalling on its own: a block is written to a Params map, keys    *)
(* may be missing from the map, and the map is read back.                  *)

ConvBlocks ==
    [log_level : {1}, log_destination : {"null"}, random_seed : {0},
     algorithm : -1 .. 5, checks : {16, 32}, cb_index : {2}, trees : {8}, branching : {16},
     iterations : {5}, centers_init : -1 .. 3, target_precision : {9},
     build_weight : {1}, memory_weight : {0}, sample_fraction : {1}]

NoBlockOut == [ok |-> FALSE, p |-> [none |-> TRUE]]

InitConv ==
    /\ cvBlock \in ConvBlocks
    /\ cvParams = EmptyParams
    /\ cvOut = NoBlockOut
    /\ cvStage = "input"

Marshal ==
    /\ cvStage = "input"
    /\ cvParams' = parametersToParams(cvBlock)
    /\ cvStage' = "params"
    /\ UNCHANGED <<cvBlock, cvOut>>

EraseKey ==
    /\ cvStage = "params"
    /\ \E key \in DOMAIN cvParams : cvParams' = Drop(cvParams, key)
    /\ UNCHANGED <<cvBlock, cvOut, cvStage>>

Unmarshal ==
    /\ cvStage = "params"
    /\ \E u \in Indeterminate, sem \in VariantSemantics :
          cvOut' = paramsToParameters(cvParams, u, sem)
    /\ cvStage' = "done"
    /\ UNCHANGED <<cvBlock, cvParams>>


-----------------------------------------------------------------------------
(* The entry points: inputs and the values that stand for "nothing"        *)

NullBlock == [null |-> TRUE]

\* the blocks a caller passes
CallerBlocks ==
    {b \in [log_level : {1}, log_destination : {"null"}, random_seed : {7},
            algorithm : {1, 2, 5}, checks : {16, 32}, cb_index : {2}, trees : {8},
            branching : {16}, iterations : {5}, centers_init : {1},
            target_precision : {-10, 9}, build_weight : {-1, 1}, memory_weight : {-1, 0},
            sample_fraction : {1}] :
        b.build_weight >= 0 \/ b.memory_weight >= 0}

\* the query points of flann_radius_search
Queries == {1}

\* the explicit checks argument of the index searches
ChecksArgs == {-1, 8}

\* squared radii of flann_radius_search
Radii == {0, 4}

NullSpeedup == [null |-> TRUE, val |-> 0]

SpeedupAt(x) == [null |-> FALSE, val |-> x]

NoAutotune == [made |-> FALSE]

NoIndex == [made |-> FALSE, algorithm |-> "", built |-> FALSE, deleted |-> FALSE]

NoBuf == [max_nn |-> 0, count |-> 0, written |-> {}]

NoArg == [h |-> 0, checks |-> 0, stale |-> FALSE]

NoSaved == [target_precision |-> 0, build_weight |-> 0, memory_weight |-> 0,
            sample_fraction |-> 0]

Handle(h) == [kind |-> "handle", val |-> h]

IntRet(n) == [kind |-> "int", val |-> n]

FloatRet(x) == [kind |-> "float", val |-> x]

NoRet == [kind |-> "none", val |-> 0]

Crash == [kind |-> "crash", val |-> 0]

Ev(op, x) == [op |-> op, arg |-> x]

Ops(t) == [i \in 1 .. Len(t) |-> t[i].op]

Count(t, op) == Cardinality({i \in 1 .. Len(t) : t[i].op = op})

-----------------------------------------------------------------------------
(* Collaborators the entry points call                                     *)

\* init_flann_parameters: the logger after the call
InitLogger(p, lg) ==
    IF p = NullBlock THEN lg
    ELSE [level |-> IF p.log_level >= 0 THEN p.log_level ELSE lg.level,
          destination |-> p.log_destination]

\* init_flann_parameters: the seed after the call
InitSeed(p, sd) ==
    IF p # NullBlock /\ p.random_seed > 0 THEN p.random_seed ELSE sd

\* (const char*)params["algorithm"] followed by create_index: the new index,
\* or NoIndex when the lookup or the factory throws
create_index(ps) ==
    IF /\ Holds(ps, "algorithm", "str")
       /\ \E i \in 1 .. Len(algos) : algos[i] = ps["algorithm"].val.text
    THEN [made |-> TRUE, algorithm |-> ps["algorithm"].val.text, built |-> FALSE,
          deleted |-> FALSE]
    ELSE NoIndex

\* what Autotune::estimateBuildIndexParams may return
AutotuneGrid ==
    { [k \in {"algorithm", "trees", "checks", "speedup"} |->
         CASE k = "algorithm" -> StrV(Literal("Autotune.h", "kdtree"))
           [] k = "trees" -> IntV(4)
           [] k = "checks" -> IntV(12)
           [] OTHER -> FloatV(10)],
      [k \in {"algorithm", "branching", "max-iterations", "centers-init", "cb_index",
              "target-precision", "checks", "speedup"} |->
         CASE k = "algorithm" -> StrV(Literal("Autotune.h", "kmeans"))
           [] k = "branching" -> IntV(32)
           [] k = "max-iterations" -> IntV(10)
           [] k = "centers-init" -> StrV(Literal("Autotune.h", "gonzales"))
           [] k = "cb_index" -> FloatV(4)
           [] k = "target-precision" -> FloatV(8)
           [] k = "checks" -> IntV(12)
           [] OTHER -> FloatV(10)] }

\* the checks Autotune::estimateSearchParams may settle on
TunedChecks == {24, 48}

\* the speedup it reports (tenths)
TunedSpeedups == {25}

\* Autotune::estimateSearchParams writes checks and speedup into params
estimateSearchParams(ps, c, s) == Put(Put(ps, "checks", IntV(c)), "speedup", FloatV(s))

\* the points of the dataset within `radius` of `query`: rows 0 .. MaxRows-1 on a
\* line, squared distance
WithinRadius(query, radius) ==
    {i \in 0 .. MaxRows - 1 : (i - query) * (i - query) <= radius}

\* how many points the radius result set may hold after findNeighbors
Collected(query, radius, checks) ==
    IF checks = -1 THEN {Cardinality(WithinRadius(query, radius))}
    ELSE 0 .. Cardinality(WithinRadius(query, radius))

-----------------------------------------------------------------------------
(* Pieces of the entry points                                              *)

\* lines 162-165: the locals saved before the block is overwritten
SaveLocals(p) ==
    [target_precision |-> p.target_precision, build_weight |-> p.build_weight,
     memory_weight |-> p.memory_weight, sample_fraction |-> p.sample_fraction]

\* flann_build_index without lines 193-196
RestoreLocals_none(p, sv) == p

\* lines 193-196: the saved locals written back into the block
RestoreLocals(p, sv) ==
    [p EXCEPT !.target_precision = sv.target_precision,
              !.build_weight = sv.build_weight,
              !.memory_weight = sv.memory_weight,
              !.sample_fraction = sv.sample_fraction]

\* an entry point that tunes whatever target_precision is
Autotuned_always(target_precision) == TRUE

\* the test that selects the autotune branch
Autotuned(target_precision) == ~(target_precision < 0)

\* an index search that takes checks from the block, as the one-shot search does
IndexSearchParams_block(checks, block) ==
    [k \in {"checks"} |-> IntV(IF block = NullBlock THEN 0 ELSE block.checks)]

\* lines 274-275 and 310-311: the search parameters of the index searches
IndexSearchParams(checks, block) == [k \in {"checks"} |-> IntV(checks)]

\* lines 243-244: the search parameters of flann_find_nearest_neighbors
BlockSearchParams(block) == [k \in {"checks"} |-> IntV(block.checks)]

\* the lowest handle not yet handed out
FreshHandle == CHOOSE h \in 1 .. MaxIndex :
                  /\ heap[h].state = "unalloc"
                  /\ \A g \in 1 .. h - 1 : heap[g].state # "unalloc"

\* everything a call resets when it starts, except what it sets itself
Enter(name, block, sp, a) ==
    /\ pc = "idle"
    /\ fn' = name
    /\ fp0' = block
    /\ speedup0' = sp
    /\ arg' = a
    /\ logger' = InitLogger(block, logger)
    /\ seed' = InitSeed(block, seed)
    /\ UNCHANGED cvVars

\* a call that ends at once, touching no index
Quiet ==
    /\ params' = EmptyParams
    /\ autotuner' = NoAutotune
    /\ index' = NoIndex
    /\ searchParams' = EmptyParams
    /\ buf' = NoBuf

\* what a step of a running call leaves alone
stepFrame == <<logger, seed, fn, fp0, speedup0, saved, arg, nullDeref, staleUse, buf>>

\* the catch block: the sentinel is returned
Throw(sentinel) ==
    /\ ret' = sentinel
    /\ pc' = "idle"

-----------------------------------------------------------------------------
(* The steps flann_build_index and flann_find_nearest_neighbors share      *)

\* lines 169-171 and 223-225: the caller's block names the index
Direct(name, sentinel) ==
    /\ fn = name
    /\ pc = "direct"
    /\ params' = parametersToParams(fp)
    /\ LET ix == create_index(parametersToParams(fp))
       IN  IF ix.made
           THEN /\ index' = ix
                /\ trace' = Append(trace, Ev("create_index", ix.algorithm))
                /\ pc' = "build"
                /\ UNCHANGED ret
           ELSE /\ Throw(sentinel)
                /\ UNCHANGED <<index, trace>>
    /\ UNCHANGED <<heap, fp, speedup, autotuner, searchParams>>
    /\ UNCHANGED stepFrame
    /\ UNCHANGED cvVars

\* lines 179-187 and 232-234: the Autotune object is made and picks the
\* parameters; only flann_build_index checks the weights first
AutotuneStart(name, sentinel, checked) ==
    /\ fn = name
    /\ pc = "autotune"
    /\ IF checked /\ (fp.build_weight < 0 \/ fp.memory_weight < 0)
       THEN /\ Throw(sentinel)
            /\ UNCHANGED <<autotuner, params, trace>>
       ELSE /\ autotuner' = [made |-> TRUE, build_weight |-> fp.build_weight,
                             memory_weight |-> fp.memory_weight,
                             sample_fraction |-> fp.sample_fraction]
            /\ \E cand \in AutotuneGrid : params' = cand
            /\ trace' = Append(trace, Ev("estimateBuildIndexParams", ""))
            /\ pc' = "create"
            /\ UNCHANGED ret
    /\ UNCHANGED <<heap, fp, speedup, index, searchParams>>
    /\ UNCHANGED stepFrame
    /\ UNCHANGED cvVars

\* lines 188 and 235: the index the autotuner chose
Create(name, sentinel) ==
    /\ fn = name
    /\ pc = "create"
    /\ LET ix == create_index(params)
       IN  IF ix.made
           THEN /\ index' = ix
                /\ trace' = Append(trace, Ev("create_index", ix.algorithm))
                /\ pc' = "build"
                /\ UNCHANGED ret
           ELSE /\ Throw(sentinel)
                /\ UNCHANGED <<index, trace>>
    /\ UNCHANGED <<heap, fp, speedup, params, autotuner, searchParams>>
    /\ UNCHANGED stepFrame
    /\ UNCHANGED cvVars

\* an entry point that goes on without index->buildIndex()
BuildIndex_skipped(name) ==
    /\ fn = name
    /\ pc = "build"
    /\ pc' = IF Autotuned(saved.target_precision) THEN "estimate" ELSE "finish"
    /\ UNCHANGED <<heap, fp, speedup, params, autotuner, searchParams, ret, index, trace>>
    /\ UNCHANGED stepFrame
    /\ UNCHANGED cvVars

\* lines 174, 189, 227 and 236: index->buildIndex()
BuildIndex(name) ==
    /\ fn = name
    /\ pc = "build"
    /\ index' = [index EXCEPT !.built = TRUE]
    /\ trace' = Append(trace, Ev("buildIndex", index.algorithm))
    /\ pc' = IF Autotuned(saved.target_precision) THEN "estimate" ELSE "finish"
    /\ UNCHANGED <<heap, fp, speedup, params, autotuner, searchParams, ret>>
    /\ UNCHANGED stepFrame
    /\ UNCHANGED cvVars

\* lines 190 and 237: autotuner.estimateSearchParams
Estimate(name) ==
    /\ fn = name
    /\ pc = "estimate"
    /\ \E c \in TunedChecks, s \in TunedSpeedups : params' = estimateSearchParams(params, c, s)
    /\ trace' = Append(trace, Ev("estimateSearchParams", ""))
    /\ pc' = "writeback"
    /\ UNCHANGED <<heap, fp, speedup, autotuner, index, searchParams, ret>>
    /\ UNCHANGED stepFrame
    /\ UNCHANGED cvVars

-----------------------------------------------------------------------------
(* flann_build_index                                                       *)

\* lines 154-168: the null check, init_flann_parameters, the saved locals
flann_build_index ==
    /\ \E h \in 1 .. MaxIndex : heap[h].state = "unalloc"
    /\ \E block \in CallerBlocks \cup {NullBlock}, sp \in {NullSpeedup, SpeedupAt(0)} :
          /\ Enter("flann_build_index", block, sp, NoArg)
          /\ fp' = block
          /\ speedup' = sp
          /\ Quiet
          /\ trace' = <<>>
          /\ nullDeref' = FALSE
          /\ staleUse' = FALSE
          /\ UNCHANGED heap
          /\ IF block = NullBlock
             THEN /\ Throw(Handle(0))
                  /\ saved' = NoSaved
             ELSE /\ ret' = NoRet
                  /\ saved' = SaveLocals(block)
                  /\ pc' = IF Autotuned(block.target_precision) THEN "autotune" ELSE "direct"

build_direct == Direct("flann_build_index", Handle(0))

build_autotune == AutotuneStart("flann_build_index", Handle(0), TRUE)

build_create == Create("flann_build_index", Handle(0))

build_buildIndex == BuildIndex("flann_build_index")

build_estimate == Estimate("flann_build_index")

\* lines 192-200: the tuned parameters overwrite the caller's block, the saved
\* locals are put back, *speedup is written
build_writeback ==
    /\ fn = "flann_build_index"
    /\ pc = "writeback"
    /\ \E u \in Indeterminate, sem \in VariantSemantics :
          LET r == paramsToParameters(params, u, sem)
          IN  IF ~r.ok
              THEN /\ Throw(Handle(0))
                   /\ UNCHANGED <<fp, speedup, trace>>
              ELSE /\ fp' = RestoreLocals(r.p, saved)
                   /\ IF speedup.null
                      THEN /\ trace' = Append(trace, Ev("write_params", ""))
                           /\ pc' = "finish"
                           /\ UNCHANGED <<speedup, ret>>
                      ELSE IF Holds(params, "speedup", "float")
                           THEN /\ speedup' = SpeedupAt(params["speedup"].val)
                                /\ trace' = trace \o <<Ev("write_params", ""),
                                                       Ev("write_speedup", "")>>
                                /\ pc' = "finish"
                                /\ UNCHANGED ret
                           ELSE /\ Throw(Handle(0))
                                /\ trace' = Append(trace, Ev("write_params", ""))
                                /\ UNCHANGED speedup
    /\ UNCHANGED <<heap, params, autotuner, index, searchParams>>
    /\ UNCHANGED stepFrame
    /\ UNCHANGED cvVars

\* line 203: the built index is handed to the caller
build_return ==
    /\ fn = "flann_build_index"
    /\ pc = "finish"
    /\ heap' = [heap EXCEPT ![FreshHandle] = [state |-> "live", deletes |-> 0]]
    /\ ret' = Handle(FreshHandle)
    /\ trace' = Append(trace, Ev("return_index", index.algorithm))
    /\ pc' = "idle"
    /\ UNCHANGED <<fp, speedup, params, autotuner, index, searchParams>>
    /\ UNCHANGED stepFrame
    /\ UNCHANGED cvVars

-----------------------------------------------------------------------------
(* flann_find_nearest_neighbors                                            *)

\* lines 214-222: init_flann_parameters accepts NULL, line 218 reads through
\* the pointer without a check
flann_find_nearest_neighbors ==
    \E block \in CallerBlocks \cup {NullBlock} :
       /\ Enter("flann_find_nearest_neighbors", block, NullSpeedup, NoArg)
       /\ fp' = block
       /\ speedup' = NullSpeedup
       /\ Quiet
       /\ trace' = <<>>
       /\ staleUse' = FALSE
       /\ UNCHANGED heap
       /\ IF block = NullBlock
          THEN /\ nullDeref' = TRUE
               /\ saved' = NoSaved
               /\ \E out \in {Crash, IntRet(-1), IntRet(0)} :
                     /\ ret' = out
                     /\ pc' = IF out = Crash THEN "crashed" ELSE "idle"
          ELSE /\ nullDeref' = FALSE
               /\ ret' = NoRet
               /\ saved' = [NoSaved EXCEPT !.target_precision = block.target_precision]
               /\ pc' = IF Autotuned(block.target_precision) THEN "autotune" ELSE "direct"

fnn_direct == Direct("flann_find_nearest_neighbors", IntRet(-1))

fnn_autotune == AutotuneStart("flann_find_nearest_neighbors", IntRet(-1), FALSE)

fnn_create == Create("flann_find_nearest_neighbors", IntRet(-1))

fnn_buildIndex == BuildIndex("flann_find_nearest_neighbors")

fnn_estimate == Estimate("flann_find_nearest_neighbors")

\* line 238: the tuned parameters overwrite the caller's block; nothing is put back
fnn_writeback ==
    /\ fn = "flann_find_nearest_neighbors"
    /\ pc = "writeback"
    /\ \E u \in Indeterminate, sem \in VariantSemantics :
          LET r == paramsToParameters(params, u, sem)
          IN  IF ~r.ok
              THEN /\ Throw(IntRet(-1))
                   /\ UNCHANGED <<fp, trace>>
              ELSE /\ fp' = r.p
                   /\ trace' = Append(trace, Ev("write_params", ""))
                   /\ pc' = "finish"
                   /\ UNCHANGED ret
    /\ UNCHANGED <<heap, speedup, params, autotuner, index, searchParams>>
    /\ UNCHANGED stepFrame
    /\ UNCHANGED cvVars

\* lines 240-252: the search with the block's checks, then the index is deleted
fnn_search ==
    /\ fn = "flann_find_nearest_neighbors"
    /\ pc = "finish"
    /\ searchParams' = BlockSearchParams(fp)
    /\ trace' = trace \o <<Ev("search_for_neighbors", index.algorithm),
                           Ev("delete_index", index.algorithm)>>
    /\ index' = [index EXCEPT !.deleted = TRUE]
    /\ ret' = IntRet(0)
    /\ pc' = "idle"
    /\ UNCHANGED <<heap, fp, speedup, params, autotuner>>
    /\ UNCHANGED stepFrame
    /\ UNCHANGED cvVars

-----------------------------------------------------------------------------
(* The entry points that take an index handle                              *)

\* the blocks passed to the calls that read only the logging fields and the seed
LogBlocks ==
    {b \in [log_level : {-1, 1}, log_destination : {"null"}, random_seed : {0, 7},
            algorithm : {2}, checks : {32}, cb_index : {2}, trees : {8}, branching : {16},
            iterations : {5}, centers_init : {1}, target_precision : {-10},
            build_weight : {1}, memory_weight : {0}, sample_fraction : {1}] :
        (b.log_level >= 0) = (b.random_seed > 0)}

\* the handles a caller holds: NULL (0) and every handle flann_build_index returned
Handles == {0} \cup {h \in 1 .. MaxIndex : heap[h].state # "unalloc"}

HandleArg(h, c) == [h |-> h, checks |-> c, stale |-> h # 0 /\ heap[h].state = "freed"]

\* the part of the state the handle calls do not use
NoLocals ==
    /\ params' = EmptyParams
    /\ autotuner' = NoAutotune
    /\ index' = NoIndex
    /\ saved' = NoSaved
    /\ speedup' = NullSpeedup
    /\ nullDeref' = FALSE

\* index_ptr == NULL: "Invalid index" is thrown and caught
InvalidIndex(sentinel) ==
    /\ Throw(sentinel)
    /\ trace' = <<>>
    /\ searchParams' = EmptyParams
    /\ buf' = NoBuf
    /\ staleUse' = FALSE
    /\ UNCHANGED heap

\* the process dies in the freed object
Dies ==
    /\ ret' = Crash
    /\ pc' = "crashed"
    /\ trace' = <<>>
    /\ searchParams' = EmptyParams
    /\ buf' = NoBuf
    /\ UNCHANGED heap

\* lines 261-289
flann_find_nearest_neighbors_index ==
    \E block \in LogBlocks \cup {NullBlock}, h \in Handles, checks \in ChecksArgs :
       /\ Enter("flann_find_nearest_neighbors_index", block, NullSpeedup, HandleArg(h, checks))
       /\ fp' = block
       /\ NoLocals
       /\ IF h = 0
          THEN InvalidIndex(IntRet(-1))
          ELSE /\ staleUse' = (heap[h].state = "freed")
               /\ \/ /\ heap[h].state = "freed"
                     /\ Dies
                  \/ /\ searchParams' = IndexSearchParams(checks, block)
                     /\ trace' = <<Ev("search_for_neighbors", "")>>
                     /\ ret' = IntRet(0)
                     /\ pc' = "idle"
                     /\ buf' = NoBuf
                     /\ UNCHANGED heap

\* lines 292-332: every collected point is copied out, whatever max_nn is
flann_radius_search ==
    \E block \in LogBlocks \cup {NullBlock}, h \in Handles, checks \in ChecksArgs,
       max_nn \in 0 .. MaxNN, query \in Queries, radius \in Radii :
       /\ Enter("flann_radius_search", block, NullSpeedup, HandleArg(h, checks))
       /\ fp' = block
       /\ NoLocals
       /\ IF h = 0
          THEN InvalidIndex(IntRet(-1))
          ELSE /\ staleUse' = (heap[h].state = "freed")
               /\ \/ /\ heap[h].state = "freed"
                     /\ Dies
                  \/ /\ searchParams' = IndexSearchParams(checks, block)
                     /\ trace' = <<Ev("findNeighbors", "")>>
                     /\ \E count_nn \in Collected(query, radius, checks) :
                           /\ buf' = [max_nn |-> max_nn, count |-> count_nn,
                                      written |-> 0 .. count_nn - 1]
                           /\ ret' = IntRet(count_nn)
                     /\ pc' = "idle"
                     /\ UNCHANGED heap

\* lines 335-352: delete index, whether or not it was deleted before
flann_free_index ==
    \E block \in LogBlocks \cup {NullBlock}, h \in Handles :
       /\ Enter("flann_free_index", block, NullSpeedup, HandleArg(h, 0))
       /\ fp' = block
       /\ NoLocals
       /\ IF h = 0
          THEN InvalidIndex(IntRet(-1))
          ELSE /\ heap[h].deletes < MaxFrees
               /\ staleUse' = (heap[h].state = "freed")
               /\ heap' = [heap EXCEPT ![h] = [state |-> "freed", deletes |-> @.deletes + 1]]
               /\ trace' = <<Ev("delete_index", "")>>
               /\ searchParams' = EmptyParams
               /\ buf' = NoBuf
               /\ \/ /\ heap[h].state = "freed"
                     /\ ret' = Crash
                     /\ pc' = "crashed"
                  \/ /\ ret' = IntRet(0)
                     /\ pc' = "idle"

\* lines 384-401 and 403-420, called with shapes that pass the asserts
TestWith(name, callee) ==
    \E h \in Handles :
       /\ Enter(name, NullBlock, NullSpeedup, HandleArg(h, 0))
       /\ fp' = NullBlock
       /\ NoLocals
       /\ IF h = 0
          THEN InvalidIndex(FloatRet(-10))
          ELSE /\ staleUse' = (heap[h].state = "freed")
               /\ \/ /\ heap[h].state = "freed"
                     /\ Dies
                  \/ /\ trace' = <<Ev(callee, "")>>
                     /\ \E x \in {5, 9} : ret' = FloatRet(x)
                     /\ pc' = "idle"
                     /\ searchParams' = EmptyParams
                     /\ buf' = NoBuf
                     /\ UNCHANGED heap

test_with_precision == TestWith("test_with_precision", "test_index_precision")

test_with_checks == TestWith("test_with_checks", "test_index_checks")

-----------------------------------------------------------------------------
(* flann_compute_cluster_centers                                           *)

\* lines 354-371: line 360 reads through flann_params without a check
flann_compute_cluster_centers ==
    \E block \in LogBlocks \cup {NullBlock}, clusters \in 1 .. 2 :
       /\ Enter("flann_compute_cluster_centers", block, NullSpeedup, NoArg)
       /\ fp' = block
       /\ speedup' = NullSpeedup
       /\ autotuner' = NoAutotune
       /\ saved' = NoSaved
       /\ searchParams' = EmptyParams
       /\ buf' = NoBuf
       /\ staleUse' = FALSE
       /\ UNCHANGED heap
       /\ IF block = NullBlock
          THEN /\ nullDeref' = TRUE
               /\ params' = EmptyParams
               /\ index' = NoIndex
               /\ trace' = <<>>
               /\ \E out \in {Crash, IntRet(-1), IntRet(0)} :
                     /\ ret' = out
                     /\ pc' = IF out = Crash THEN "crashed" ELSE "idle"
          ELSE /\ nullDeref' = FALSE
               /\ params' = parametersToParams(block)
               /\ index' = [made |-> TRUE, algorithm |-> "kmeans", built |-> TRUE,
                            deleted |-> TRUE]
               /\ trace' = <<Ev("buildIndex", "kmeans"), Ev("getClusterCenters", "")>>
               /\ \E clusterNum \in 1 .. clusters : ret' = IntRet(clusterNum)
               /\ pc' = "idle"

-----------------------------------------------------------------------------
(* The library in use: calls arrive one at a time                          *)

Init ==
    /\ heap = [h \in 1 .. MaxIndex |-> [state |-> "unalloc", deletes |-> 0]]
    /\ logger = [level |-> 0, destination |-> "null"]
    /\ seed = 0
    /\ pc = "idle"
    /\ fn = "none"
    /\ fp = NullBlock
    /\ fp0 = NullBlock
    /\ speedup = NullSpeedup
    /\ speedup0 = NullSpeedup
    /\ params = EmptyParams
    /\ autotuner = NoAutotune
    /\ index = NoIndex
    /\ trace = <<>>
    /\ ret = NoRet
    /\ searchParams = EmptyParams
    /\ buf = NoBuf
    /\ saved = NoSaved
    /\ arg = NoArg
    /\ nullDeref = FALSE
    /\ staleUse = FALSE
    /\ cvBlock = [none |-> TRUE]
    /\ cvParams = EmptyParams
    /\ cvOut = NoBlockOut
    /\ cvStage = "off"

Next ==
    \/ flann_build_index
    \/ build_direct
    \/ build_autotune
    \/ build_create
    \/ build_buildIndex
    \/ build_estimate
    \/ build_writeback
    \/ build_return
    \/ flann_find_nearest_neighbors
    \/ fnn_direct
    \/ fnn_autotune
    \/ fnn_create
    \/ fnn_buildIndex
    \/ fnn_estimate
    \/ fnn_writeback
    \/ fnn_search
    \/ flann_find_nearest_neighbors_index
    \/ flann_radius_search
    \/ flann_free_index
    \/ test_with_precision
    \/ test_with_checks
    \/ flann_compute_cluster_centers

Spec == Init /\ [][Next]_vars

\* the marshalling alone: no call is running
InitMarshalling ==
    /\ heap = [h \in 1 .. MaxIndex |-> [state |-> "unalloc", deletes |-> 0]]
    /\ logger = [level |-> 0, destination |-> "null"]
    /\ seed = 0
    /\ pc = "off"
    /\ fn = "none"
    /\ fp = NullBlock
    /\ fp0 = NullBlock
    /\ speedup = NullSpeedup
    /\ speedup0 = NullSpeedup
    /\ params = EmptyParams
    /\ autotuner = NoAutotune
    /\ index = NoIndex
    /\ trace = <<>>
    /\ ret = NoRet
    /\ searchParams = EmptyParams
    /\ buf = NoBuf
    /\ saved = NoSaved
    /\ arg = NoArg
    /\ nullDeref = FALSE
    /\ staleUse = FALSE
    /\ InitConv

NextMarshalling ==
    \/ Marshal /\ UNCHANGED callVars
    \/ EraseKey /\ UNCHANGED callVars
    \/ Unmarshal /\ UNCHANGED callVars

SpecMarshalling == InitMarshalling /\ [][NextMarshalling]_vars

-----------------------------------------------------------------------------
(* Properties                                                              *)

IsPrefix(a, b) == Len(a) <= Len(b) /\ \A i \in 1 .. Len(a) : a[i] = b[i]

Has(t, op) == Count(t, op) > 0

BuildOrFnn == {"flann_build_index", "flann_find_nearest_neighbors"}

\* the running or last call is a build or a one-shot search with a block
WithBlock == fn \in BuildOrFnn /\ fp0 # NullBlock

\* the last call returned and succeeded
Succeeded ==
    /\ pc = "idle"
    /\ \/ ret.kind = "handle" /\ ret.val # 0
       \/ ret.kind = "int" /\ ret.val >= 0

\* the calls of an autotuned flann_build_index / flann_find_nearest_neighbors, in order
AutotuneOps ==
    <<"estimateBuildIndexParams", "create_index", "buildIndex", "estimateSearchParams",
      "write_params">>
    \o (IF fn = "flann_build_index"
        THEN (IF speedup0.null THEN <<>> ELSE <<"write_speedup">>) \o <<"return_index">>
        ELSE <<"search_for_neighbors", "delete_index">>)

\* C1: flann_radius_search on a live index returns the number of points the
\* radius result set collected and writes no position i >= max_nn of the
\* caller's indices[] and dists[].
C1_RadiusWritesWithinMaxNN ==
    (fn = "flann_radius_search" /\ pc = "idle" /\ arg.h # 0 /\ ~arg.stale)
    => /\ ret = IntRet(buf.count)
       /\ \A i \in buf.written : i < buf.max_nn

\* C2: an entry point called with a null required pointer returns its sentinel
\* (null handle, -1, -1.0), never dereferences the null pointer and creates or
\* searches no index.
C2_NullPointerSentinel ==
    /\ ~nullDeref
    /\ (fn = "flann_build_index" /\ fp0 = NullBlock)
       => (ret = Handle(0) /\ trace = <<>>)
    /\ (fn \in {"flann_find_nearest_neighbors", "flann_compute_cluster_centers"}
        /\ fp0 = NullBlock)
       => (ret = IntRet(-1) /\ trace = <<>>)
    /\ (fn \in {"flann_find_nearest_neighbors_index", "flann_radius_search",
                "flann_free_index"} /\ arg.h = 0)
       => (ret = IntRet(-1) /\ trace = <<>>)
    /\ (fn \in {"test_with_precision", "test_with_checks"} /\ arg.h = 0)
       => (ret = FloatRet(-10) /\ trace = <<>>)

\* C3: once flann_free_index has returned 0 for a handle, every later
\* flann_find_nearest_neighbors_index, flann_radius_search or flann_free_index
\* on it returns -1 without touching the freed index, and no index is deleted
\* twice.
C3_FreedHandleRejected ==
    /\ (fn \in {"flann_find_nearest_neighbors_index", "flann_radius_search",
                "flann_free_index"} /\ arg.stale)
       => (ret = IntRet(-1) /\ ~staleUse)
    /\ \A h \in 1 .. MaxIndex : heap[h].deletes <= 1

\* C4: with target_precision >= 0 and a negative build_weight or memory_weight,
\* flann_build_index returns a null handle, flann_find_nearest_neighbors returns
\* -1, and no Autotune object is made with the negative weight.
C4_NegativeWeightRejected ==
    /\ autotuner.made => (autotuner.build_weight >= 0 /\ autotuner.memory_weight >= 0)
    /\ (WithBlock /\ pc = "idle" /\ fp0.target_precision >= 0
        /\ (fp0.build_weight < 0 \/ fp0.memory_weight < 0))
       => /\ fn = "flann_build_index" => ret = Handle(0)
          /\ fn = "flann_find_nearest_neighbors" => ret = IntRet(-1)
          /\ trace = <<>>

\* C5, as stated: a key missing from the Params map reads back as the default
\* of the parameter table: checks 32, cb_index 0.4, trees 4, branching 32,
\* max-iterations 11, centers-init random, algorithm kdtree.
C5_MissingKeyTableDefault ==
    (cvStage = "done" /\ cvOut.ok)
    => /\ "checks" \notin DOMAIN cvParams => cvOut.p.checks = 32
       /\ "cb_index" \notin DOMAIN cvParams => cvOut.p.cb_index = 4
       /\ "trees" \notin DOMAIN cvParams => cvOut.p.trees = 4
       /\ "branching" \notin DOMAIN cvParams => cvOut.p.branching = 32
       /\ "max-iterations" \notin DOMAIN cvParams => cvOut.p.iterations = 11
       /\ "centers-init" \notin DOMAIN cvParams => cvOut.p.centers_init = CENTERS_RANDOM
       /\ "algorithm" \notin DOMAIN cvParams => cvOut.p.algorithm = 1

\* C5, amended: a key missing from the Params map reads back as -1 for checks,
\* trees, branching, max-iterations and target-precision, as 0.4 for cb_index
\* and as random for centers-init; with the algorithm key missing the
\* conversion throws or yields linear.
C5_MissingKeyUnset ==
    (cvStage = "done" /\ cvOut.ok)
    => /\ "checks" \notin DOMAIN cvParams => cvOut.p.checks = -1
       /\ "cb_index" \notin DOMAIN cvParams => cvOut.p.cb_index = 4
       /\ "trees" \notin DOMAIN cvParams => cvOut.p.trees = -1
       /\ "branching" \notin DOMAIN cvParams => cvOut.p.branching = -1
       /\ "max-iterations" \notin DOMAIN cvParams => cvOut.p.iterations = -1
       /\ "target-precision" \notin DOMAIN cvParams => cvOut.p.target_precision = -10
       /\ "centers-init" \notin DOMAIN cvParams => cvOut.p.centers_init = CENTERS_RANDOM
       /\ "algorithm" \notin DOMAIN cvParams => cvOut.p.algorithm = LINEAR

C5_Witness ==
    /\ cvStage = "done"
    /\ cvOut.ok
    /\ DOMAIN cvParams = {"cb_index", "centers-init"}
    /\ cvOut.p.checks = -1
    /\ cvOut.p.trees = -1
    /\ cvOut.p.algorithm = LINEAR

\* C6: with target_precision < 0 flann_build_index and
\* flann_find_nearest_neighbors never call the autotuner, leave the caller's
\* block and *speedup unchanged, and, the block naming one of the five
\* algorithms, create exactly one index of that algorithm and build it exactly
\* once.
C6_NoAutotuneFrame ==
    (WithBlock /\ fp0.target_precision < 0)
    => /\ ~autotuner.made
       /\ ~Has(trace, "estimateBuildIndexParams")
       /\ ~Has(trace, "estimateSearchParams")
       /\ fp = fp0
       /\ speedup = speedup0
       /\ Count(trace, "create_index") <= 1
       /\ Count(trace, "buildIndex") <= 1
       /\ (pc = "idle" /\ fp0.algorithm \in 0 .. Len(algos) - 1)
          => /\ Succeeded
             /\ Count(trace, "create_index") = 1
             /\ Count(trace, "buildIndex") = 1
             /\ \A i \in 1 .. Len(trace) :
                   trace[i].op \in {"create_index", "buildIndex"}
                   => trace[i].arg = algos[fp0.algorithm + 1]

C6_Witness ==
    /\ WithBlock
    /\ fn = "flann_build_index"
    /\ fp0.target_precision < 0
    /\ Succeeded
    /\ Count(trace, "buildIndex") = 1
    /\ trace[1] = Ev("create_index", "kmeans")

\* C7: on the autotune path (target_precision >= 0, weights non-negative) the
\* calls happen in the order estimateBuildIndexParams, create_index, buildIndex,
\* estimateSearchParams, each once; the caller's block and *speedup are written
\* only after estimateSearchParams; the index is searched or returned only
\* after buildIndex.
C7_AutotuneOrder ==
    (WithBlock /\ fp0.target_precision >= 0
     /\ fp0.build_weight >= 0 /\ fp0.memory_weight >= 0)
    => /\ IsPrefix(Ops(trace), AutotuneOps)
       /\ pc = "idle" => (Succeeded /\ Ops(trace) = AutotuneOps)
       /\ ~Has(trace, "estimateSearchParams") => (fp = fp0 /\ speedup = speedup0)
       /\ (Has(trace, "search_for_neighbors") \/ Has(trace, "return_index")) => index.built
       /\ Has(trace, "create_index") => trace[2].arg = params["algorithm"].val.text

C7_Witness ==
    /\ WithBlock
    /\ fn = "flann_build_index"
    /\ fp0.target_precision >= 0
    /\ Succeeded
    /\ Ops(trace) = <<"estimateBuildIndexParams", "create_index", "buildIndex",
                      "estimateSearchParams", "write_params", "write_speedup",
                      "return_index">>

\* C8: the search receives a Params map holding checks and nothing else: in
\* flann_find_nearest_neighbors the checks the autotuner chose when
\* target_precision >= 0 and the caller's flann_params->checks otherwise; in
\* flann_find_nearest_neighbors_index and flann_radius_search the checks
\* argument.
C8_ChecksBudget ==
    /\ (WithBlock /\ fn = "flann_find_nearest_neighbors" /\ Succeeded)
       => /\ DOMAIN searchParams = {"checks"}
          /\ fp0.target_precision >= 0
             => /\ searchParams["checks"] = params["checks"]
                /\ searchParams["checks"].val \in TunedChecks
          /\ fp0.target_precision < 0 => searchParams["checks"] = IntV(fp0.checks)
    /\ (fn \in {"flann_find_nearest_neighbors_index", "flann_radius_search"} /\ Succeeded)
       => /\ DOMAIN searchParams = {"checks"}
          /\ searchParams["checks"] = IntV(arg.checks)

C8_Witness ==
    /\ fn = "flann_radius_search"
    /\ Succeeded
    /\ fp # NullBlock
    /\ fp.checks = 32
    /\ searchParams = [k \in {"checks"} |-> IntV(8)]

\* C9: for a block whose algorithm and centers_init are enum values,
\* paramsToParameters(parametersToParams(p)) has p's checks, cb_index, trees,
\* iterations, branching, target_precision, centers_init and algorithm; a
\* centers_init outside the enum reads back as random.
C9_RoundTrip ==
    (cvStage = "done" /\ cvParams = parametersToParams(cvBlock))
    => /\ (/\ cvBlock.algorithm \in 0 .. Len(algos) - 1
           /\ cvBlock.centers_init \in 0 .. Len(centers_algos) - 1)
          => /\ cvOut.ok
             /\ \A f \in {"checks", "cb_index", "trees", "iterations", "branching",
                          "target_precision", "centers_init", "algorithm"} :
                   cvOut.p[f] = cvBlock[f]
       /\ (cvOut.ok /\ cvBlock.centers_init \notin 0 .. Len(centers_algos) - 1)
          => cvOut.p.centers_init = CENTERS_RANDOM

C9_Witness ==
    /\ cvStage = "done"
    /\ cvParams = parametersToParams(cvBlock)
    /\ cvBlock.algorithm = 3
    /\ cvBlock.centers_init = 2
    /\ cvOut.ok
    /\ cvOut.p.algorithm = 3
    /\ cvOut.p.centers_init = 2
    /\ cvOut.p.iterations = 5

\* C10: after a successful autotuned flann_build_index the caller's block holds
\* the tuned parameters, and its target_precision, build_weight, memory_weight
\* and sample_fraction are what they were when the call started.
C10_AutotuneKeepsWeights ==
    (WithBlock /\ fn = "flann_build_index" /\ fp0.target_precision >= 0
     /\ Has(trace, "write_params"))
    => /\ fp.target_precision = fp0.target_precision
       /\ fp.build_weight = fp0.build_weight
       /\ fp.memory_weight = fp0.memory_weight
       /\ fp.sample_fraction = fp0.sample_fraction
       /\ fp.checks = params["checks"].val

C10_Witness ==
    /\ WithBlock
    /\ fn = "flann_build_index"
    /\ fp0.target_precision >= 0
    /\ Succeeded
    /\ fp.checks = 48
    /\ fp0.checks = 16
    /\ fp.trees = 4
    /\ fp.branching = -1
    /\ fp.target_precision = 9
=============================================================================
